---------------------------- MODULE Spec2Model ----------------------------
(***************************************************************************)
(* A model of connectivity-srm: the batch script of ts_classification.py   *)
(* (the time-segment classification loop, then the ISC loop, each with its *)
(* results file) and the array functions of ts_classification.py and       *)
(* encoding_model.py.                                                      *)
(*                                                                         *)
(* Arrays are sequences of rows, a row a sequence of entries.  Entries are *)
(* small integers; NaN is one reserved integer that compares as IEEE NaN   *)
(* does (see Gt, IsNaN).                                                   *)
(***************************************************************************)
EXTENDS Integers, Sequences, FiniteSets, TLC

(***************************************************************************)
(* Bounds of the model.                                                    *)
(***************************************************************************)
\* how many times the batch script is started
MaxRuns == 2
\* time_segmentation: rows and columns of the time series, segment length
MaxTRs == 8
MaxVoxels == 2
MaxSegLen == 8
\* correlation_classification: segments, subjects and entries of the tensor
MaxSegments == 3
MaxSubjects == 2
MaxEntries == 9
\* delay_embedding: rows and columns of the embedding, length of the delay
\* list, largest delay
MaxRows == 3
MaxFeatures == 2
MaxDelays == 2
MaxDelay == 4
\* grid_search: rows, model columns, data columns, alphas, folds
MaxSamples == 3
MaxModelCols == 3
MaxDataCols == 3
MaxAlphas == 2
MaxSplits == 3
\* split_half: rows of a story's model
MaxStoryRows == 4
\* time_segment_correlation: rows, columns, subjects, segment length
MaxCorrTRs == 4
MaxCorrVoxels == 2
MaxCorrSubjects == 3
MaxCorrSegLen == 4

(***************************************************************************)
(* Generic helpers.                                                        *)
(***************************************************************************)
Range(s) == {s[i] : i \in 1..Len(s)}

\* the largest element of a non-empty set of integers
SetMax(S) == CHOOSE x \in S : \A y \in S : y <= x

\* the concatenation of a sequence of sequences
RECURSIVE Flatten(_)
Flatten(ss) == IF ss = <<>> THEN <<>> ELSE Head(ss) \o Flatten(Tail(ss))

\* the sum of a sequence of integers
RECURSIVE Sum(_)
Sum(s) == IF s = <<>> THEN 0 ELSE Head(s) + Sum(Tail(s))

\* np.nan, as a reserved entry
NaN == -1
IsNaN(x) == x = NaN

\* a > b on floats: False when either side is NaN
Gt(a, b) == ~IsNaN(a) /\ ~IsNaN(b) /\ a > b

\* what a function call ended with
Ok(v) == [kind |-> "ok", value |-> v]
Raise(e) == [kind |-> "raise", error |-> e]
NoRet == [kind |-> "none"]

\* a Python dict: a function with a finite domain of keys
EmptyDict == [k \in {} |-> 0]

\* d[k] = v on a Python dict
Put(d, k, v) == [x \in (DOMAIN d) \cup {k} |-> IF x = k THEN v ELSE d[x]]

(***************************************************************************)
(* ts_classification.py, __main__: the batch script.                       *)
(*                                                                         *)
(* The configured lists are scaled down: one story that both loops visit,  *)
(* one region, the two 'no SRM' method labels, both hemispheres.  A unit   *)
(* is one <<story, roi, label, hemi>> combination.                         *)
(***************************************************************************)
stories == <<"black">>
isc_stories == <<"black">>
rois == <<"EAC">>
prefixes == <<"no SRM", "no SRM (average)">>
isc_prefixes == <<"no SRM", "no SRM (average)">>
hemis == <<"lh", "rh">>

\* the two results files, by the loop that owns them
Loops == {"ts", "isc"}

StoriesOf(l) == IF l = "ts" THEN stories ELSE isc_stories
PrefixesOf(l) == IF l = "ts" THEN prefixes ELSE isc_prefixes

\* the units of a loop in the order the nested for-loops visit them
NUnits(l) == Len(StoriesOf(l)) * Len(rois) * Len(PrefixesOf(l)) * Len(hemis)

UnitAt(l, i) ==
    LET j == i - 1
        nh == Len(hemis)
        np == Len(PrefixesOf(l))
        nr == Len(rois)
    IN  << StoriesOf(l)[(j \div (nh * np * nr)) + 1],
           rois[((j \div (nh * np)) % nr) + 1],
           PrefixesOf(l)[((j \div nh) % np) + 1],
           hemis[(j % nh) + 1] >>

UnitsOf(l) == {UnitAt(l, i) : i \in 1..NUnits(l)}

\* the placeholder the loops store before computing: results[..][hemi] = {}
Placeholder == "{}"

\* the array a unit's computation yields in run r; "v0" is an array that was
\* in the file before the first run
Val(r) == <<"v1", "v2", "v3", "v4", "v5">>[r]

\* hemi in results[story][roi][label], with every level present
HasHemi(r, u) ==
    /\ u[1] \in DOMAIN r
    /\ u[2] \in DOMAIN r[u[1]]
    /\ u[3] \in DOMAIN r[u[1]][u[2]]
    /\ u[4] \in DOMAIN r[u[1]][u[2]][u[3]]

Leaf(r, u) == r[u[1]][u[2]][u[3]][u[4]]

\* the key holds a value (an array, not the placeholder)
HasLeaf(r, u) == HasHemi(r, u) /\ Leaf(r, u) # Placeholder

\* the three "if key not in ...: ... = {}" of the loop heads above a unit
EnsureLevels(r, u) ==
    LET r1 == IF u[1] \in DOMAIN r THEN r ELSE Put(r, u[1], EmptyDict)
        s2 == IF u[2] \in DOMAIN r1[u[1]] THEN r1[u[1]]
              ELSE Put(r1[u[1]], u[2], EmptyDict)
        p3 == IF u[3] \in DOMAIN s2[u[2]] THEN s2[u[2]]
              ELSE Put(s2[u[2]], u[3], EmptyDict)
    IN  Put(r1, u[1], Put(s2, u[2], p3))

\* results[story][roi][label][hemi] = v, the levels above being present
SetLeaf(r, u, v) ==
    Put(r, u[1], Put(r[u[1]], u[2],
        Put(r[u[1]][u[2]], u[3], Put(r[u[1]][u[2]][u[3]], u[4], v))))

\* every nested mapping a results file may hold for the configured keys
HemiMaps == UNION {[H -> {"v0"}] : H \in SUBSET Range(hemis)}
LabelMaps(l) == UNION {[P -> HemiMaps] : P \in SUBSET Range(PrefixesOf(l))}
RoiMaps(l) == UNION {[R -> LabelMaps(l)] : R \in SUBSET Range(rois)}
StoryMaps(l) == UNION {[S -> RoiMaps(l)] : S \in SUBSET Range(StoriesOf(l))}

\* a results file: absent, or a saved mapping
Files(l) == {[exists |-> FALSE, content |-> EmptyDict]}
            \cup {[exists |-> TRUE, content |-> m] : m \in StoryMaps(l)}

VARIABLES
    disk,       \* the two results files, by loop
    results,    \* the script's results dict
    loop,       \* the loop the script is in
    pos,        \* index of the unit the loop is at
    pc,         \* where the script is
    run,        \* number of the current run of the script
    loaded,     \* history: the mapping the current loop loaded
    calls,      \* history: units the current loop loaded data for and computed
    startDisk,  \* history: the files as they were when the current run started
    lastAbort   \* history: what the previous run did, if it aborted

\* one call of one function of the repository
VARIABLES
    fn,     \* the function called
    args,   \* its arguments, by parameter name
    ret     \* what the call ended with

varsCall == <<fn, args, ret>>

IdleCall == fn = "none" /\ args = EmptyDict /\ ret = NoRet

varsBatch == <<disk, results, loop, pos, pc, run, loaded, calls, startDisk,
               lastAbort>>

NoAbort == [aborted |-> FALSE, loop |-> "ts", done |-> {}]

InitBatch ==
    /\ disk \in [Loops -> Files("ts") \cup Files("isc")]
    /\ disk["ts"] \in Files("ts")
    /\ disk["isc"] \in Files("isc")
    /\ results = EmptyDict
    /\ loop = "ts"
    /\ pos = 1
    /\ pc = "load"
    /\ run = 1
    /\ loaded = EmptyDict
    /\ calls = {}
    /\ startDisk = disk
    /\ lastAbort = NoAbort

IdleBatch ==
    /\ disk = [l \in Loops |-> [exists |-> FALSE, content |-> EmptyDict]]
    /\ results = EmptyDict
    /\ loop = "ts"
    /\ pos = 1
    /\ pc = "idle"
    /\ run = 1
    /\ loaded = EmptyDict
    /\ calls = {}
    /\ startDisk = disk
    /\ lastAbort = NoAbort

\* "if exists(results_fn): results = np.load(...) else: results = {}"
LoadResults(l) ==
    /\ UNCHANGED varsCall
    /\ pc = "load"
    /\ loop = l
    /\ results' = IF disk[l].exists THEN disk[l].content ELSE EmptyDict
    /\ loaded' = results'
    /\ calls' = {}
    /\ pos' = 1
    /\ pc' = "loop"
    /\ UNCHANGED <<disk, loop, run, startDisk, lastAbort>>

\* a time-segment loop whose computation is not under the "if hemi not in"
TSComputesUnguarded(r, u) == TRUE

\* whether the time-segment loop computes the unit: the computation is inside
\* "if hemi not in results[story][roi][prefix[0]]"
TSComputes(r, u) == ~HasHemi(r, u)

\* whether the ISC loop computes the unit: the computation follows the
\* "if hemi not in ..." at the indentation of the for-loop body
ISCComputes(r, u) == TRUE

Computes(l, r, u) == IF l = "ts" THEN TSComputes(r, u) ELSE ISCComputes(r, u)

\* the head of one unit's iteration: the levels above are created, the
\* placeholder is stored for a missing key, and the unit is either skipped or
\* its data load and computation start
EnterUnit ==
    /\ UNCHANGED varsCall
    /\ pc = "loop"
    /\ pos <= NUnits(loop)
    /\ LET u == UnitAt(loop, pos)
           r1 == EnsureLevels(results, u)
           r2 == IF HasHemi(r1, u) THEN r1 ELSE SetLeaf(r1, u, Placeholder)
       IN  IF Computes(loop, results, u)
           THEN /\ results' = r2
                /\ pc' = "computing"
                /\ pos' = pos
           ELSE /\ results' = r2
                /\ pc' = "loop"
                /\ pos' = pos + 1
    /\ UNCHANGED <<disk, loop, run, loaded, calls, startDisk, lastAbort>>

\* a loop that saves the results file after every unit it computes
FinishUnitSaving ==
    /\ UNCHANGED varsCall
    /\ pc = "computing"
    /\ LET u == UnitAt(loop, pos)
       IN  /\ results' = SetLeaf(results, u, Val(run))
           /\ calls' = calls \cup {u}
    /\ disk' = [disk EXCEPT ![loop] = [exists |-> TRUE, content |-> results']]
    /\ pos' = pos + 1
    /\ pc' = "loop"
    /\ UNCHANGED <<loop, run, loaded, startDisk, lastAbort>>

\* load_split_data, stack_subjects and the computation return, and the result
\* is stored: results[story][roi][prefix[0]][hemi] = accuracies (or iscs).
\* What is computed (the regional average of 'no SRM (average)', the
\* classification or the ISC) is the array Val(run); the 'tSRM' test of the
\* time-segment loop changes the file prefix only, and no configured label
\* starts with 'tSRM'.
FinishUnit ==
    /\ UNCHANGED varsCall
    /\ pc = "computing"
    /\ LET u == UnitAt(loop, pos)
       IN  /\ results' = SetLeaf(results, u, Val(run))
           /\ calls' = calls \cup {u}
    /\ pos' = pos + 1
    /\ pc' = "loop"
    /\ UNCHANGED <<disk, loop, run, loaded, startDisk, lastAbort>>

\* an exception leaves the script while a unit is computed (a missing data
\* file, a failed assertion): nothing after it runs, np.save included
AbortUnit ==
    /\ UNCHANGED varsCall
    /\ pc = "computing"
    /\ pc' = "aborted"
    /\ UNCHANGED <<disk, results, loop, pos, run, loaded, calls, startDisk,
                   lastAbort>>

\* "np.save(results_fn, results)" after the loop
SaveResults ==
    /\ UNCHANGED varsCall
    /\ pc = "loop"
    /\ pos > NUnits(loop)
    /\ disk' = [disk EXCEPT ![loop] = [exists |-> TRUE, content |-> results]]
    /\ IF loop = "ts"
       THEN /\ pc' = "saved"
            /\ loop' = loop
       ELSE /\ pc' = "done"
            /\ loop' = loop
    /\ UNCHANGED <<results, pos, run, loaded, calls, startDisk, lastAbort>>

\* the script goes on from the time-segment part to the ISC part
StartISC ==
    /\ UNCHANGED varsCall
    /\ pc = "saved"
    /\ loop = "ts"
    /\ loop' = "isc"
    /\ pc' = "load"
    /\ UNCHANGED <<disk, results, pos, run, loaded, calls, startDisk,
                   lastAbort>>

\* the script is started again, after it finished or after it aborted
Rerun ==
    /\ UNCHANGED varsCall
    /\ pc \in {"done", "aborted"}
    /\ run < MaxRuns
    /\ run' = run + 1
    /\ lastAbort' = IF pc = "aborted"
                    THEN [aborted |-> TRUE, loop |-> loop, done |-> calls]
                    ELSE NoAbort
    /\ startDisk' = disk
    /\ results' = EmptyDict
    /\ loaded' = EmptyDict
    /\ calls' = {}
    /\ loop' = "ts"
    /\ pos' = 1
    /\ pc' = "load"
    /\ UNCHANGED disk

NextBatch ==
    \/ LoadResults("ts")
    \/ LoadResults("isc")
    \/ EnterUnit
    \/ FinishUnit
    \/ AbortUnit
    \/ SaveResults
    \/ StartISC
    \/ Rerun

(***************************************************************************)
(* Claims about the batch script.                                          *)
(***************************************************************************)
\* the units whose key held a value in the mapping the loop loaded
LoadedUnits(l) == {u \in UnitsOf(l) : HasLeaf(loaded, u)}

\* the loop is past its load: loaded and calls are those of this loop
InLoop(l) == loop = l /\ pc \in {"loop", "computing", "saved", "done", "aborted"}

\* C1: in the ISC loop, a key that held a value in the loaded mapping is not
\* recomputed (no data load, no call of isc for it) and keeps the loaded value.
C1_ISCKeepsLoaded ==
    InLoop("isc") =>
        \A u \in LoadedUnits("isc") :
            /\ u \notin calls
            /\ HasLeaf(results, u)
            /\ Leaf(results, u) = Leaf(loaded, u)

\* C2: in the time-segment loop every value of the loaded mapping is left as
\* it was, only the keys that were missing are computed, and once the loop
\* has finished every configured combination holds a value (which is what
\* np.save writes).
C2_TSFillsOnlyMissing ==
    InLoop("ts") =>
        /\ \A u \in LoadedUnits("ts") :
                /\ u \notin calls
                /\ HasLeaf(results, u)
                /\ Leaf(results, u) = Leaf(loaded, u)
        /\ calls \subseteq UnitsOf("ts") \ LoadedUnits("ts")
        /\ pc = "saved" =>
                /\ \A u \in UnitsOf("ts") : HasLeaf(results, u)
                /\ calls = UnitsOf("ts") \ LoadedUnits("ts")
                /\ disk["ts"] = [exists |-> TRUE, content |-> results]

\* C2 witness: a finished time-segment loop that started from a partly
\* populated mapping, kept a loaded value and computed a missing one
C2_Witness ==
    /\ loop = "ts"
    /\ pc = "saved"
    /\ LoadedUnits("ts") # {}
    /\ calls # {}

\* C9 as claimed: when a run aborts, every unit it completed is in the
\* persisted cache, and the next run computes none of them again.
C9_AbortKeepsCompleted ==
    /\ pc = "aborted" => \A u \in calls : HasLeaf(disk[loop].content, u)
    /\ (lastAbort.aborted /\ InLoop(lastAbort.loop)) =>
            calls \cap lastAbort.done = {}

\* C9 as amended: the results file is written only after the whole loop, so a
\* run that aborts leaves the file of that loop as it was when the run
\* started, and the next run that finishes the loop computes again every unit
\* the aborted run had completed.
C9_AbortLosesCompleted ==
    /\ pc = "aborted" => disk[loop] = startDisk[loop]
    /\ (lastAbort.aborted /\ loop = lastAbort.loop /\ pc \in {"saved", "done"})
            => lastAbort.done \subseteq calls

\* C9 witness: the run after an abort has finished the loop that had aborted
\* after completing a unit
C9_Witness ==
    /\ lastAbort.aborted
    /\ lastAbort.done # {}
    /\ loop = lastAbort.loop
    /\ pc \in {"saved", "done"}

(***************************************************************************)
(* ts_classification.py: time_segmentation and correlation_classification. *)
(***************************************************************************)
\* np.array_split(a, n, axis=0): n chunks, the first Len(a) % n one row longer
array_split(a, n) ==
    LET each == Len(a) \div n
        extra == Len(a) % n
        start(i) == (i - 1) * each + (IF i - 1 < extra THEN i - 1 ELSE extra)
        size(i) == each + (IF i <= extra THEN 1 ELSE 0)
    IN  [i \in 1..n |-> SubSeq(a, start(i) + 1, start(i) + size(i))]

\* np.ravel(segment): the rows of the segment one after the other
ravel(segment) == Flatten(segment)

\* np.mean(segment, axis=0): per column, the sum of the rows over their number
\* (NaN over the number when a row holds NaN in the column)
mean_axis0(segment) ==
    [v \in 1..Len(segment[1]) |->
        IF \E t \in 1..Len(segment) : IsNaN(segment[t][v])
        THEN <<NaN, Len(segment)>>
        ELSE <<Sum([t \in 1..Len(segment) |-> segment[t][v]]),
               Len(segment)>>]

\* time_segmentation(data, segment_length, average): the stacked segments, or
\* the ZeroDivisionError of "n_TRs % n_segments" when there is no segment
time_segmentation(data, segment_length, average) ==
    LET n_TRs == Len(data)
        n_segments == n_TRs \div segment_length
    IN  IF n_segments = 0 THEN Raise("ZeroDivisionError")
        ELSE LET modulo == n_TRs % n_segments
                 kept == IF modulo = 0 THEN data
                         ELSE SubSeq(data, 1, n_TRs - modulo)
                 parts == array_split(kept, n_segments)
             IN  Ok([i \in 1..n_segments |->
                      IF average THEN mean_axis0(parts[i])
                      ELSE ravel(parts[i])])

\* np.amax of a list: ValueError on the empty list, NaN if any entry is NaN
amax(list) ==
    IF list = <<>> THEN Raise("ValueError")
    ELSE IF \E k \in 1..Len(list) : IsNaN(list[k]) THEN Ok(NaN)
    ELSE Ok(SetMax(Range(list)))

\* [row[off] for off in np.arange(len(row)) if off != i]
RECURSIVE OffDiagonal(_, _, _)
OffDiagonal(row, i, off) ==
    IF off > Len(row) THEN <<>>
    ELSE (IF off # i THEN <<row[off]>> ELSE <<>>) \o OffDiagonal(row, i, off + 1)

\* np.moveaxis(correlations, 2, 0)[s]: the slice of one subject
SubjectSlice(correlations, s) ==
    [i \in 1..Len(correlations) |->
        [j \in 1..Len(correlations[i]) |-> correlations[i][j][s]]]

\* the loop over the rows of one slice: the number of hits, or the error
RECURSIVE CountHits(_, _)
CountHits(correlation, i) ==
    IF i > Len(correlation) THEN Ok(0)
    ELSE LET row == correlation[i]
             diagonal == row[i]
             best == amax(OffDiagonal(row, i, 1))
         IN  IF best.kind = "raise" THEN best
             ELSE LET rest == CountHits(correlation, i + 1)
                  IN  IF rest.kind = "raise" THEN rest
                      ELSE Ok(rest.value
                              + (IF Gt(diagonal, best.value) THEN 1 ELSE 0))

\* correlation_classification(correlations), for a tensor indexed
\* [segment][segment][subject]: (accuracies, chance), a fraction being the
\* pair <<numerator, denominator>>
correlation_classification(correlations) ==
    LET n_segments == Len(correlations)
        n_subjects == Len(correlations[1][1])
        hits == [s \in 1..n_subjects |->
                    CountHits(SubjectSlice(correlations, s), 1)]
    IN  IF \E s \in 1..n_subjects : hits[s].kind = "raise"
        THEN Raise("ValueError")
        ELSE Ok([accuracies |-> [s \in 1..n_subjects |->
                                    <<hits[s].value, n_segments>>],
                 chance |-> <<1, n_segments>>])

(***************************************************************************)
(* The function calls: one call of one function, on arguments drawn from   *)
(* bounded sets.                                                           *)
(***************************************************************************)
\* a time series whose entry in row t, column v is 10 t + v
SeriesOf(T, V) == [t \in 1..T |-> [v \in 1..V |-> 10 * t + v]]

InitSeg ==
    /\ fn = "time_segmentation"
    /\ \E T \in 0..MaxTRs, V \in 1..MaxVoxels, L \in 1..MaxSegLen,
          a \in BOOLEAN :
          args = [data |-> SeriesOf(T, V), segment_length |-> L, average |-> a]
    /\ ret = NoRet
    /\ IdleBatch

CallTimeSegmentation ==
    /\ fn = "time_segmentation"
    /\ ret = NoRet
    /\ ret' = time_segmentation(args.data, args.segment_length, args.average)
    /\ UNCHANGED <<fn, args>>
    /\ UNCHANGED varsBatch

\* the values of a correlation: two levels and NaN
Corrs == {1, 2, NaN}

InitClass ==
    /\ fn = "correlation_classification"
    /\ \E n \in 1..MaxSegments, S \in 1..MaxSubjects :
          /\ n * n * S <= MaxEntries
          /\ \E c \in [1..n -> [1..n -> [1..S -> Corrs]]] :
                args = [correlations |-> c]
    /\ ret = NoRet
    /\ IdleBatch

CallCorrelationClassification ==
    /\ fn = "correlation_classification"
    /\ ret = NoRet
    /\ ret' = correlation_classification(args.correlations)
    /\ UNCHANGED <<fn, args>>
    /\ UNCHANGED varsBatch

(***************************************************************************)
(* Claims about time_segmentation and correlation_classification.          *)
(***************************************************************************)
Returned(f) == fn = f /\ ret # NoRet

\* C3: for 1 <= L <= T, time_segmentation returns floor(T/L) segments, segment
\* i built from the L consecutive rows (i-1)L .. iL-1, so that only the
\* trailing T mod L rows are left out.
C3_SegmentsOfLengthL ==
    (Returned("time_segmentation")
     /\ args.segment_length <= Len(args.data)) =>
        LET T == Len(args.data)
            L == args.segment_length
            rows(i) == SubSeq(args.data, (i - 1) * L + 1, i * L)
        IN  /\ ret.kind = "ok"
            /\ Len(ret.value) = T \div L
            /\ \A i \in 1..(T \div L) :
                  ret.value[i] = IF args.average THEN mean_axis0(rows(i))
                                 ELSE ravel(rows(i))

\* C4: correlation_classification counts segment i of subject s as a hit iff
\* the diagonal entry is strictly greater than every off-diagonal entry of
\* row i, and returns hits / n_segments per subject and chance 1 / n_segments,
\* for every n_segments >= 1.
C4_HitRule ==
    Returned("correlation_classification") =>
        LET c == args.correlations
            n == Len(c)
            S == Len(c[1][1])
            Hit(s, i) == \A j \in (1..n) \ {i} : Gt(c[i][i][s], c[i][j][s])
        IN  /\ ret.kind = "ok"
            /\ Len(ret.value.accuracies) = S
            /\ \A s \in 1..S :
                  ret.value.accuracies[s]
                      = <<Cardinality({i \in 1..n : Hit(s, i)}), n>>
            /\ ret.value.chance = <<1, n>>

\* the hit rule of C4 from two segments on, where every row has an
\* off-diagonal entry
HitRuleFromTwoSegments ==
    Len(args.correlations) >= 2 => C4_HitRule

(***************************************************************************)
(* encoding_model.py: delay_embedding.                                     *)
(***************************************************************************)
\* a[start:stop] on the rows of an array, start >= 0, stop of either sign
PySlice(a, start, stop) ==
    LET n == Len(a)
        lo == IF start > n THEN n ELSE start
        hi == IF stop < 0 THEN (IF n + stop < 0 THEN 0 ELSE n + stop)
              ELSE (IF stop > n THEN n ELSE stop)
    IN  SubSeq(a, lo + 1, hi)

\* np.full((n, width), np.nan)
NaNRows(n, width) == [r \in 1..n |-> [f \in 1..width |-> NaN]]

\* a block that shifts by one row less than the delay
DelayedBlockShort(embedding, delay) ==
    NaNRows(delay - 1, Len(embedding[1])) \o PySlice(embedding, 0, -(delay - 1))

\* np.vstack((np.full((delay, embedding.shape[1]), np.nan),
\*            embedding[:-delay]))
DelayedBlock(embedding, delay) ==
    NaNRows(delay, Len(embedding[1])) \o PySlice(embedding, 0, -delay)

\* np.hstack(blocks): the blocks side by side, or ValueError when there is
\* no block or the blocks differ in their number of rows
hstack(blocks) ==
    IF blocks = <<>> THEN Raise("ValueError")
    ELSE IF \E b \in 1..Len(blocks) : Len(blocks[b]) # Len(blocks[1])
    THEN Raise("ValueError")
    ELSE Ok([r \in 1..Len(blocks[1]) |->
                Flatten([b \in 1..Len(blocks) |-> blocks[b][r]])])

\* delayed[np.isnan(delayed)] = 0
ZeroNaNs(m) ==
    [r \in 1..Len(m) |->
        [c \in 1..Len(m[r]) |-> IF IsNaN(m[r][c]) THEN 0 ELSE m[r][c]]]

\* delay_embedding(embedding, delays, zscore_features), for an embedding of
\* at least one row.  The value is the matrix before scipy's zscore, and
\* zscored says whether zscore(delayed, axis=0) is what is returned.
delay_embedding(embedding, delay_list, zscore_features) ==
    LET stacked == hstack([b \in 1..Len(delay_list) |->
                              DelayedBlock(embedding, delay_list[b])])
    IN  IF stacked.kind = "raise" THEN stacked
        ELSE [kind |-> "ok", value |-> ZeroNaNs(stacked.value),
              zscored |-> zscore_features]

\* an embedding whose entry in row t, column f is 10 t + f, with at most one
\* entry NaN
EmbeddingOf(T, F, nan) ==
    [t \in 1..T |-> [f \in 1..F |-> IF <<t, f>> = nan THEN NaN ELSE 10 * t + f]]

DelayLists == UNION {[1..k -> 1..MaxDelay] : k \in 1..MaxDelays}

InitDelay ==
    /\ fn = "delay_embedding"
    /\ \E T \in 1..MaxRows, F \in 1..MaxFeatures, ds \in DelayLists,
          z \in BOOLEAN :
          \E nan \in ((1..T) \X (1..F)) \cup {<<0, 0>>} :
              args = [embedding |-> EmbeddingOf(T, F, nan), delays |-> ds,
                      zscore_features |-> z]
    /\ ret = NoRet
    /\ IdleBatch

CallDelayEmbedding ==
    /\ fn = "delay_embedding"
    /\ ret = NoRet
    /\ ret' = delay_embedding(args.embedding, args.delays, args.zscore_features)
    /\ UNCHANGED <<fn, args>>
    /\ UNCHANGED varsBatch

(***************************************************************************)
(* Claims about delay_embedding.                                           *)
(***************************************************************************)
\* entry f of the block of the b-th delay in row r of the output
BlockEntry(out, F, b, r, f) == out[r][(b - 1) * F + f]

\* C5: the output has T rows and F k columns, and the block of delay d has
\* its first min(d, T) rows zero; a delay d >= T gives an all-zero block of T
\* rows.  (Stated without standardization.)
C5_ShapeAndWarmUp ==
    (Returned("delay_embedding") /\ ~args.zscore_features) =>
        LET T == Len(args.embedding)
            F == Len(args.embedding[1])
            k == Len(args.delays)
        IN  /\ ret.kind = "ok"
            /\ Len(ret.value) = T
            /\ \A r \in 1..Len(ret.value) : Len(ret.value[r]) = F * k
            /\ \A b \in 1..k, r \in 1..T, f \in 1..F :
                  r <= args.delays[b] => BlockEntry(ret.value, F, b, r, f) = 0

Column(a, v) == [t \in 1..Len(a) |-> a[t][v]]

\* grid.cv_results_['split{split}_test_score'][alpha] after
\* grid.fit(train_model, column)
FoldScore(column, alpha, split) == (column[1] + 2 * alpha + split) % 5

\* np.mean(split_scores, axis=0): per alpha, the sum over the folds and their
\* number
MeanScores(column, alphas, n_splits) ==
    [a \in 1..Len(alphas) |->
        <<Sum([k \in 1..n_splits |-> FoldScore(column, alphas[a], k)]),
          n_splits>>]

\* the index of grid.best_params_: the first alpha with the largest mean score
BestIndex(column, alphas, n_splits) ==
    LET mean == MeanScores(column, alphas, n_splits)
    IN  CHOOSE a \in 1..Len(alphas) :
            /\ \A b \in 1..Len(alphas) : mean[b][1] <= mean[a][1]
            /\ \A b \in 1..(a - 1) : mean[b][1] < mean[a][1]

\* grid_search(train_model, train_data, alphas, scorer, n_splits):
\* (best_alphas, best_scores, all_scores), the ValueError of KFold when there
\* are fewer rows than folds, or the IndexError of train_data[:, voxel]
grid_search(train_model, train_data, alphas, n_splits) ==
    LET n_voxels == Len(train_model[1])
        data_cols == Len(train_data[1])
    IN  IF Len(train_model) < n_splits THEN Raise("ValueError")
        ELSE IF n_voxels > data_cols THEN Raise("IndexError")
        ELSE LET col(v) == Column(train_data, v)
                 best(v) == BestIndex(col(v), alphas, n_splits)
             IN  Ok([best_alphas |-> [v \in 1..n_voxels |-> alphas[best(v)]],
                     best_scores |->
                        [v \in 1..n_voxels |->
                            MeanScores(col(v), alphas, n_splits)[best(v)]],
                     all_scores |->
                        [a \in 1..Len(alphas) |->
                            [v \in 1..n_voxels |->
                                MeanScores(col(v), alphas, n_splits)[a]]]])

InitGrid ==
    /\ fn = "grid_search"
    /\ \E N \in 1..MaxSamples, F \in 1..MaxModelCols, V \in 1..MaxDataCols,
          nA \in 1..MaxAlphas, k \in 2..MaxSplits :
          args = [train_model |-> SeriesOf(N, F), train_data |-> SeriesOf(N, V),
                  alphas |-> [a \in 1..nA |-> a], n_splits |-> k]
    /\ ret = NoRet
    /\ IdleBatch

CallGridSearch ==
    /\ fn = "grid_search"
    /\ ret = NoRet
    /\ ret' = grid_search(args.train_model, args.train_data, args.alphas,
                          args.n_splits)
    /\ UNCHANGED <<fn, args>>
    /\ UNCHANGED varsBatch

\* C7: for a train_model of F columns and a train_data of V columns (V = F or
\* not), with at least as many rows as folds, grid_search searches once per
\* column of train_data and returns best_alphas and best_scores of length V
\* and an all_scores of one row per alpha and V columns, entry v being the
\* result of data column v.
C7_OneSearchPerDataColumn ==
    (Returned("grid_search") /\ Len(args.train_model) >= args.n_splits) =>
        LET V == Len(args.train_data[1])
            col(v) == Column(args.train_data, v)
            mean(v) == MeanScores(col(v), args.alphas, args.n_splits)
        IN  /\ ret.kind = "ok"
            /\ Len(ret.value.best_alphas) = V
            /\ Len(ret.value.best_scores) = V
            /\ Len(ret.value.all_scores) = Len(args.alphas)
            /\ \A a \in 1..Len(args.alphas) :
                  /\ Len(ret.value.all_scores[a]) = V
                  /\ \A v \in 1..V : ret.value.all_scores[a][v] = mean(v)[a]
            /\ \A v \in 1..V :
                  /\ ret.value.best_scores[v]
                        = mean(v)[BestIndex(col(v), args.alphas, args.n_splits)]
                  /\ ret.value.best_alphas[v]
                        = args.alphas[BestIndex(col(v), args.alphas,
                                                args.n_splits)]

(***************************************************************************)
(* encoding_model.py: split_half.                                          *)
(*                                                                         *)
(* A half is the record of its rows and of whether scipy's zscore was      *)
(* applied to it.                                                          *)
(***************************************************************************)
\* a midpoint rounded up
MidpointCeil(model) == (Len(model) + 1) \div 2

\* midpoint = model.shape[0] // 2
Midpoint(model) == Len(model) \div 2

\* a[:midpoint] and a[midpoint:], each z-scored on its own if asked
FirstHalf(a, midpoint, z) == [rows |-> PySlice(a, 0, midpoint), zscored |-> z]
SecondHalf(a, midpoint, z) ==
    [rows |-> PySlice(a, midpoint, Len(a)), zscored |-> z]

\* [(first, second), (second, first)]
Folds(a, midpoint, z) ==
    << <<FirstHalf(a, midpoint, z), SecondHalf(a, midpoint, z)>>,
       <<SecondHalf(a, midpoint, z), FirstHalf(a, midpoint, z)>> >>

\* split_half(inputs, zscore_data, zscore_model): (model_splits, data_splits),
\* or the AssertionError of "assert data.shape[0] == model.shape[0]"
split_half(inputs, zscore_data, zscore_model) ==
    IF \E story \in DOMAIN inputs : \E subject \in DOMAIN inputs[story].data :
          Len(inputs[story].data[subject]) # Len(inputs[story].model)
    THEN Raise("AssertionError")
    ELSE Ok([model_splits |->
                [story \in DOMAIN inputs |->
                    Folds(inputs[story].model, Midpoint(inputs[story].model),
                          zscore_model)],
             data_splits |->
                [story \in DOMAIN inputs |->
                    [subject \in DOMAIN inputs[story].data |->
                        Folds(inputs[story].data[subject],
                              Midpoint(inputs[story].model), zscore_data)]]])

\* the subjects of a story, in the order of metadata[story]['data']
subjects == <<"sub-02", "sub-15">>

\* the data of the s-th subject: entry 100 s + 10 t + v in row t, column v
DataOf(s, T, V) == [t \in 1..T |-> [v \in 1..V |-> 100 * s + 10 * t + v]]

\* a story's inputs: a model of n rows, each subject's data of n or n+1 rows
StoryInputs ==
    UNION {{[model |-> SeriesOf(n, 1),
             data |-> [sub \in Range(subjects) |->
                          DataOf(IF sub = subjects[1] THEN 1 ELSE 2,
                                 n + extra[sub], 1)]] :
              extra \in [Range(subjects) -> {0, 1}]} : n \in 0..MaxStoryRows}

InitSplit ==
    /\ fn = "split_half"
    /\ \E S \in (SUBSET {"black", "forgot"}) \ {{}} :
          \E i \in [S -> StoryInputs], zd \in BOOLEAN, zm \in BOOLEAN :
              args = [inputs |-> i, zscore_data |-> zd, zscore_model |-> zm]
    /\ ret = NoRet
    /\ IdleBatch

CallSplitHalf ==
    /\ fn = "split_half"
    /\ ret = NoRet
    /\ ret' = split_half(args.inputs, args.zscore_data, args.zscore_model)
    /\ UNCHANGED <<fn, args>>
    /\ UNCHANGED varsBatch

\* every subject of every story has as many rows as the story's model
RowsAgree(inputs) ==
    \A story \in DOMAIN inputs : \A subject \in DOMAIN inputs[story].data :
        Len(inputs[story].data[subject]) = Len(inputs[story].model)

\* folds are the two orders of two halves that are the rows before and the
\* rows from index mid on
MirrorFoldsAt(folds, a, mid) ==
    /\ Len(folds) = 2
    /\ folds[2] = <<folds[1][2], folds[1][1]>>
    /\ ~folds[1][1].zscored /\ ~folds[1][2].zscored
    /\ Len(folds[1][1].rows) = mid
    /\ folds[1][1].rows \o folds[1][2].rows = a

\* C8: with z-scoring off and every subject's data as long as the model (n
\* rows), split_half cuts the model and every subject at floor(n/2) into two
\* contiguous, disjoint halves that together are all n rows, and returns for
\* each exactly the folds (first, second) and (second, first).
C8_MirrorFolds ==
    (Returned("split_half") /\ ~args.zscore_data /\ ~args.zscore_model
     /\ RowsAgree(args.inputs)) =>
        /\ ret.kind = "ok"
        /\ DOMAIN ret.value.model_splits = DOMAIN args.inputs
        /\ DOMAIN ret.value.data_splits = DOMAIN args.inputs
        /\ \A story \in DOMAIN args.inputs :
              LET model == args.inputs[story].model
                  mid == Len(model) \div 2
              IN  /\ MirrorFoldsAt(ret.value.model_splits[story], model, mid)
                  /\ DOMAIN ret.value.data_splits[story]
                        = DOMAIN args.inputs[story].data
                  /\ \A subject \in DOMAIN args.inputs[story].data :
                        MirrorFoldsAt(ret.value.data_splits[story][subject],
                                      args.inputs[story].data[subject], mid)

\* C8 witness: a returned split of two stories, one with an odd number of
\* rows, z-scoring off
C8_Witness ==
    /\ Returned("split_half")
    /\ ret.kind = "ok"
    /\ ~args.zscore_data /\ ~args.zscore_model
    /\ Cardinality(DOMAIN args.inputs) = 2
    /\ \E story \in DOMAIN args.inputs : Len(args.inputs[story].model) = 3

(***************************************************************************)
(* encoding_model.py: load_inputs.                                         *)
(*                                                                         *)
(* metadata[story] holds the arrays that np.load and read_gifti return for *)
(* the files it names.                                                     *)
(***************************************************************************)
\* delays = [2, 3, 4, 5], the default of delay_embedding
delays == <<2, 3, 4, 5>>

\* metadata.keys(), in order
metadata_keys == <<"black", "forgot">>

\* a[trims[0]:(-trims[1] or None), :]
TrimRows(a, trims) ==
    IF trims[2] = 0 THEN PySlice(a, trims[1], Len(a))
    ELSE PySlice(a, trims[1], -trims[2])

\* surf_data[:, mask] if mask is an array, surf_data otherwise
RECURSIVE KeepColumns(_, _, _)
KeepColumns(row, keep, c) ==
    IF c > Len(row) THEN <<>>
    ELSE (IF keep[c] THEN <<row[c]>> ELSE <<>>) \o KeepColumns(row, keep, c + 1)

ApplyMask(surf_data, mask) ==
    IF mask.given
    THEN [t \in 1..Len(surf_data) |-> KeepColumns(surf_data[t], mask.keep, 1)]
    ELSE surf_data

\* a check that lets every subject through
ShapeMatchesAlways(model, surf_data) == TRUE

\* model.shape[0] == surf_data.shape[0]
ShapeMatches(model, surf_data) == Len(model) = Len(surf_data)

\* raise ValueError(f"Model shape {model.shape} does not match data shape
\* {surf_data.shape} for story {story}")
ShapeMismatch(story, model, surf_data) ==
    [kind |-> "raise", error |-> "ValueError", story |-> story,
     model_rows |-> Len(model), data_rows |-> Len(surf_data)]

\* the loop over the subjects of one story from the i-th on: the story's data
\* dict, or the error of the first subject that does not match
RECURSIVE LoadSubjects(_, _, _, _, _, _)
LoadSubjects(meta, story, model, mask, i, data) ==
    IF i > Len(subjects) THEN Ok(data)
    ELSE LET subject == subjects[i]
             surf_data == TrimRows(meta.data[subject], meta.data_trims)
         IN  IF ~ShapeMatches(model, surf_data)
             THEN ShapeMismatch(story, model, surf_data)
             ELSE LoadSubjects(meta, story, model, mask, i + 1,
                               Put(data, subject, ApplyMask(surf_data, mask)))

\* the loop over the stories from the i-th on
RECURSIVE LoadStories(_, _, _, _, _)
LoadStories(metadata, story_list, mask, i, inputs) ==
    IF i > Len(story_list) THEN Ok(inputs)
    ELSE LET story == story_list[i]
             meta == metadata[story]
             embedding == TrimRows(meta.model, meta.model_trims)
             model == delay_embedding(embedding, delays, FALSE)
         IN  IF model.kind = "raise" THEN model
             ELSE LET data == LoadSubjects(meta, story, model.value, mask, 1,
                                           EmptyDict)
                  IN  IF data.kind = "raise" THEN data
                      ELSE LoadStories(metadata, story_list, mask, i + 1,
                               Put(inputs, story,
                                   [model |-> model.value, data |-> data.value]))

\* load_inputs(metadata, stories, mask): inputs, or the error that ended the
\* call; stories = <<>> stands for None (and for an empty list)
load_inputs(metadata, story_list, mask) ==
    LoadStories(metadata,
                IF story_list = <<>> THEN metadata_keys ELSE story_list,
                mask, 1, EmptyDict)

\* the files of one story: an embedding of 6 or 7 rows, data of 6 or 7 rows
\* per subject, trims that cut nothing, both ends, or the end only
FileRows == {6, 7}
Trims == {<<0, 0>>, <<1, 1>>, <<0, 2>>}

StoryMetas ==
    {[model |-> SeriesOf(Tm, 1), model_trims |-> mt,
      data |-> [sub \in Range(subjects) |->
                   DataOf(IF sub = subjects[1] THEN 1 ELSE 2, Td[sub], 2)],
      data_trims |-> dt] :
        Tm \in FileRows, mt \in Trims, Td \in [Range(subjects) -> FileRows],
        dt \in Trims}

InitLoad ==
    /\ fn = "load_inputs"
    /\ \E md \in [Range(metadata_keys) -> StoryMetas],
          st \in {<<>>, <<"black">>, <<"forgot">>, <<"forgot", "black">>},
          given \in BOOLEAN :
          args = [metadata |-> md, stories |-> st,
                  mask |-> [given |-> given, keep |-> <<TRUE, FALSE>>]]
    /\ ret = NoRet
    /\ IdleBatch

CallLoadInputs ==
    /\ fn = "load_inputs"
    /\ ret = NoRet
    /\ ret' = load_inputs(args.metadata, args.stories, args.mask)
    /\ UNCHANGED <<fn, args>>
    /\ UNCHANGED varsBatch

(***************************************************************************)
(* Claims about load_inputs.                                               *)
(***************************************************************************)
\* the stories the call goes through, in order
Requested == IF args.stories = <<>> THEN metadata_keys ELSE args.stories

\* rows [start : T - end] of a file, end = 0 cutting nothing
RowsKept(a, trims) == SubSeq(a, trims[1] + 1, Len(a) - trims[2])

\* the rows of the story's trimmed embedding and of a subject's trimmed data
ModelRows(story) ==
    Len(RowsKept(args.metadata[story].model, args.metadata[story].model_trims))
DataRows(story, subject) ==
    Len(RowsKept(args.metadata[story].data[subject],
                 args.metadata[story].data_trims))

\* delay_embedding returned a model for the story (it raises for an embedding
\* shorter than the longest delay, see C5)
ModelBuilt(story) == ModelRows(story) >= SetMax(Range(delays))

StoryMatches(story) ==
    \A k \in 1..Len(subjects) : DataRows(story, subjects[k]) = ModelRows(story)

\* the i-th requested story is the first with a subject that does not match,
\* and the call gets to it
FirstMismatchAt(i) ==
    /\ \A j \in 1..i : ModelBuilt(Requested[j])
    /\ \A j \in 1..(i - 1) : StoryMatches(Requested[j])
    /\ ~StoryMatches(Requested[i])

\* C10: load_inputs trims model and data to rows [start : T-end] (end = 0: no
\* trailing trim); it returns inputs only if every subject of every requested
\* story has as many trimmed rows as the story's delayed model, and then every
\* data matrix has the row count of its model; at the first subject that
\* differs it raises the shape-mismatch error and returns nothing, whatever
\* was loaded before.
C10_AllOrNothing ==
    Returned("load_inputs") =>
        /\ ret.kind = "ok" <=>
              \A i \in 1..Len(Requested) :
                  ModelBuilt(Requested[i]) /\ StoryMatches(Requested[i])
        /\ ret.kind = "ok" =>
              /\ DOMAIN ret.value = Range(Requested)
              /\ \A story \in Range(Requested) :
                    /\ Len(ret.value[story].model) = ModelRows(story)
                    /\ \A k \in 1..Len(subjects) :
                          LET data == ret.value[story].data[subjects[k]]
                              kept == RowsKept(
                                  args.metadata[story].data[subjects[k]],
                                  args.metadata[story].data_trims)
                          IN  /\ Len(data) = Len(ret.value[story].model)
                              /\ data = ApplyMask(kept, args.mask)
        /\ ret.kind # "ok" => "value" \notin DOMAIN ret
        /\ \A i \in 1..Len(Requested) :
              FirstMismatchAt(i) =>
                  /\ ret.kind = "raise"
                  /\ "story" \in DOMAIN ret
                  /\ ret.story = Requested[i]
                  /\ ret.model_rows = ModelRows(Requested[i])
                  /\ ret.data_rows # ret.model_rows
                  /\ \E k \in 1..Len(subjects) :
                        /\ ret.data_rows = DataRows(Requested[i], subjects[k])
                        /\ \A h \in 1..(k - 1) :
                              DataRows(Requested[i], subjects[h])
                                  = ModelRows(Requested[i])

\* C10 witness: the shape-mismatch error raised at the second subject of the
\* second requested story, after a whole story and a subject were loaded,
\* under trims that cut rows
C10_Witness ==
    /\ Returned("load_inputs")
    /\ Len(Requested) = 2
    /\ FirstMismatchAt(2)
    /\ DataRows(Requested[2], subjects[1]) = ModelRows(Requested[2])
    /\ args.metadata[Requested[2]].data_trims = <<1, 1>>
    /\ args.metadata[Requested[1]].model_trims = <<0, 0>>
    /\ ret.kind = "raise"

(***************************************************************************)
(* ts_classification.py: time_segment_correlation.                         *)
(*                                                                         *)
(* data is indexed [TR][voxel][subject].  A mean over subjects is kept as  *)
(* an integer: the sum of the entries times (n_subjects - 1)! over their   *)
(* number.  The correlation of two segment vectors is the unordered pair   *)
(* of the two vectors.                                                     *)
(***************************************************************************)
RECURSIVE Factorial(_)
Factorial(n) == IF n <= 1 THEN 1 ELSE n * Factorial(n - 1)

\* data[..., i]: the time series of one subject
SubjectSeries(data, i) ==
    [t \in 1..Len(data) |-> [v \in 1..Len(data[t]) |-> data[t][v][i]]]

\* the subjects of a mean that leaves nobody out
EverySubject(n_subjects, i_subject) == [k \in 1..n_subjects |-> k]

\* [i_other for i_other in np.arange(n_subjects) if i_other != i_subject]
OtherSubjects(n_subjects, i_subject) ==
    [k \in 1..(n_subjects - 1) |-> IF k < i_subject THEN k ELSE k + 1]

\* np.nanmean over a list of entries: the mean of those that are not NaN,
\* NaN when all are
nanmean(entries, scale) ==
    LET kept == {k \in 1..Len(entries) : ~IsNaN(entries[k])}
    IN  IF kept = {} THEN NaN
        ELSE (scale * Sum([k \in 1..Len(entries) |->
                              IF k \in kept THEN entries[k] ELSE 0]))
             \div Cardinality(kept)

\* np.nanmean(np.dstack([data[..., i_other] for i_other in list]), axis=2)
MeanOver(data, list, scale) ==
    [t \in 1..Len(data) |->
        [v \in 1..Len(data[t]) |->
            nanmean([k \in 1..Len(list) |-> data[t][v][list[k]]], scale)]]

\* the correlation of two segment vectors
Corr(a, b) == {a, b}

\* np.corrcoef(x, y): the correlations of the rows of x stacked on the rows
\* of y
corrcoef(x, y) ==
    LET stacked == x \o y
    IN  [i \in 1..Len(stacked) |->
            [j \in 1..Len(stacked) |-> Corr(stacked[i], stacked[j])]]

\* m[:n, n:]
UpperRightBlock(m, n) ==
    [i \in 1..n |-> [j \in 1..(Len(m) - n) |-> m[i][n + j]]]

\* one iteration of the subject loop: the slice of i_subject, or the error
\* that ends the call
SubjectCorrelation(data, segment_length, average, i_subject) ==
    LET n_subjects == Len(data[1][1])
        n_segments == Len(data) \div segment_length
        list == OtherSubjects(n_subjects, i_subject)
    IN  IF list = <<>> THEN Raise("ValueError")
        ELSE IF Len(list) # n_subjects - 1 THEN Raise("AssertionError")
        ELSE LET subject == SubjectSeries(data, i_subject)
                 others == MeanOver(data, list, Factorial(n_subjects - 1))
                 subject_segments ==
                     time_segmentation(subject, segment_length, average)
                 others_segments ==
                     time_segmentation(others, segment_length, average)
             IN  IF subject_segments.kind = "raise" THEN subject_segments
                 ELSE IF others_segments.kind = "raise" THEN others_segments
                 ELSE IF \/ n_segments # Len(subject_segments.value)
                         \/ n_segments # Len(others_segments.value)
                 THEN Raise("AssertionError")
                 ELSE Ok(UpperRightBlock(
                          corrcoef(subject_segments.value,
                                   others_segments.value), n_segments))

\* time_segment_correlation(data, segment_length, average), for data of at
\* least one TR and one voxel: np.dstack(correlations), indexed
\* [segment][segment][subject], or the error of the first subject that fails
time_segment_correlation(data, segment_length, average) ==
    LET n_subjects == Len(data[1][1])
        slice == [i \in 1..n_subjects |->
                     SubjectCorrelation(data, segment_length, average, i)]
    IN  IF \E i \in 1..n_subjects : slice[i].kind = "raise"
        THEN slice[CHOOSE i \in 1..n_subjects :
                      /\ slice[i].kind = "raise"
                      /\ \A h \in 1..(i - 1) : slice[h].kind = "ok"]
        ELSE Ok([i \in 1..Len(slice[1].value) |->
                    [j \in 1..Len(slice[1].value[i]) |->
                        [k \in 1..n_subjects |-> slice[k].value[i][j]]]])

\* data whose entry of subject s in row t, column v is 100 s + 10 t + v, with
\* at most one entry NaN
StackOf(T, V, S, nan) ==
    [t \in 1..T |-> [v \in 1..V |-> [k \in 1..S |->
        IF <<t, v, k>> = nan THEN NaN ELSE 100 * k + 10 * t + v]]]

InitCorr ==
    /\ fn = "time_segment_correlation"
    /\ \E T \in 1..MaxCorrTRs, V \in 1..MaxCorrVoxels, S \in 1..MaxCorrSubjects,
          L \in 1..MaxCorrSegLen, a \in BOOLEAN :
          \E nan \in ((1..T) \X (1..V) \X (1..S)) \cup {<<0, 0, 0>>} :
              args = [data |-> StackOf(T, V, S, nan), segment_length |-> L,
                      average |-> a]
    /\ ret = NoRet
    /\ IdleBatch

CallTimeSegmentCorrelation ==
    /\ fn = "time_segment_correlation"
    /\ ret = NoRet
    /\ ret' = time_segment_correlation(args.data, args.segment_length,
                                       args.average)
    /\ UNCHANGED <<fn, args>>
    /\ UNCHANGED varsBatch

(***************************************************************************)
(* Claims about time_segment_correlation.                                  *)
(***************************************************************************)
\* the mean of subject s's reference series at row t, column v: over the
\* entries of the subjects other than s that are not NaN
ReferenceEntry(data, s, t, v) ==
    LET S == Len(data[1][1])
        used == {o \in (1..S) \ {s} : ~IsNaN(data[t][v][o])}
        RECURSIVE Total(_)
        Total(O) == IF O = {} THEN 0
                    ELSE LET o == CHOOSE x \in O : TRUE
                         IN  data[t][v][o] + Total(O \ {o})
    IN  IF used = {} THEN NaN
        ELSE (Factorial(S - 1) * Total(used)) \div Cardinality(used)

ReferenceSeries(data, s) ==
    [t \in 1..Len(data) |->
        [v \in 1..Len(data[t]) |-> ReferenceEntry(data, s, t, v)]]

\* C11: for data of S >= 2 subjects and a segment length L <= T,
\* time_segment_correlation returns one slice per subject in subject order;
\* entry (i, j) of slice s is the correlation of segment i of subject s with
\* segment j of the mean over the other S-1 subjects, to which subject s does
\* not contribute; both series are cut with the same segment_length and
\* average into floor(T/L) segments, and no assertion fails.
C11_LeaveOneOutSlices ==
    (Returned("time_segment_correlation")
     /\ Len(args.data[1][1]) >= 2
     /\ args.segment_length <= Len(args.data)) =>
        LET S == Len(args.data[1][1])
            n == Len(args.data) \div args.segment_length
            own(s) == time_segmentation(SubjectSeries(args.data, s),
                                        args.segment_length, args.average)
            ref(s) == time_segmentation(ReferenceSeries(args.data, s),
                                        args.segment_length, args.average)
        IN  /\ ret.kind = "ok"
            /\ Len(ret.value) = n
            /\ \A s \in 1..S :
                  /\ Len(own(s).value) = n
                  /\ Len(ref(s).value) = n
            /\ \A i \in 1..n :
                  /\ Len(ret.value[i]) = n
                  /\ \A j \in 1..n :
                        /\ Len(ret.value[i][j]) = S
                        /\ \A s \in 1..S :
                              ret.value[i][j][s]
                                  = Corr(own(s).value[i], ref(s).value[j])

\* C11 witness: returned slices of three subjects, three segments each, with
\* a NaN in the data of the second subject
C11_Witness ==
    /\ Returned("time_segment_correlation")
    /\ ret.kind = "ok"
    /\ Len(args.data[1][1]) = 3
    /\ Len(args.data) = 3
    /\ args.segment_length = 1
    /\ Len(ret.value) = 3
    /\ \E t \in 1..3 : IsNaN(args.data[t][1][2])

(***************************************************************************)
(* Specifications.                                                         *)
(***************************************************************************)
vars == <<varsBatch, varsCall>>

\* the batch script, run up to MaxRuns times
InitBatchRun == InitBatch /\ IdleCall
SpecBatch == InitBatchRun /\ [][NextBatch]_vars

\* one call of time_segmentation
SpecSeg == InitSeg /\ [][CallTimeSegmentation]_vars

\* one call of correlation_classification
SpecClass == InitClass /\ [][CallCorrelationClassification]_vars

\* one call of delay_embedding
SpecDelay == InitDelay /\ [][CallDelayEmbedding]_vars

\* one call of grid_search
SpecGrid == InitGrid /\ [][CallGridSearch]_vars

\* one call of split_half
SpecSplit == InitSplit /\ [][CallSplitHalf]_vars

\* one call of load_inputs
SpecLoad == InitLoad /\ [][CallLoadInputs]_vars

\* one call of time_segment_correlation
SpecCorr == InitCorr /\ [][CallTimeSegmentCorrelation]_vars

=============================================================================
